---- MODULE Spec2Model ----
(***************************************************************************)
(* Model of src/app.py: the vaccination schedule calculator                *)
(* (calculate_schedule over the VACCINES table) and the Streamlit pages of *)
(* main() that register children, record administered doses, derive the   *)
(* display status of each dose and report the dashboard figures.           *)
(*                                                                         *)
(* A calendar date is a record [y, m, d].  A schedule item is a record     *)
(* with the keys of the Python dict; the optional key 'shot_date' is       *)
(* present in the record's domain exactly when it is present in the dict.  *)
(* The vaccine_name string "<name> (<i+1>回目)" is the pair <<name, i+1>>.  *)
(***************************************************************************)
EXTENDS Integers, Sequences, FiniteSets, TLC

VARIABLES children, view

vars == <<children, view>>

(***************************************************************************)
(* Bounds of the model.                                                    *)
(***************************************************************************)
MaxChildren == 2
MaxAhead == 1
CalcFirstYear == 2019
CalcYears == 5

(***************************************************************************)
(* Calendar arithmetic: datetime.date, timedelta(days=1) and               *)
(* dateutil.relativedelta(months=n).                                       *)
(***************************************************************************)
NoDate == [y |-> 0, m |-> 0, d |-> 0]

Date(y, m, d) == [y |-> y, m |-> m, d |-> d]

IsLeap(y) == (y % 4 = 0) /\ ((y % 100 # 0) \/ (y % 400 = 0))

DaysInMonth(y, m) ==
    IF m = 2 THEN (IF IsLeap(y) THEN 29 ELSE 28)
    ELSE IF m \in {4, 6, 9, 11} THEN 30 ELSE 31

Min(a, b) == IF a <= b THEN a ELSE b

\* date + relativedelta(months=n): the month moves n places, the year
\* carries, and the day is clamped to the length of the target month.
AddMonths(dt, n) ==
    LET k == (dt.m - 1) + n
        yy == dt.y + (k \div 12)
        mm == (k % 12) + 1
    IN  Date(yy, mm, Min(dt.d, DaysInMonth(yy, mm)))

\* date - timedelta(days=1)
MinusOneDay(dt) ==
    IF dt.d > 1 THEN Date(dt.y, dt.m, dt.d - 1)
    ELSE IF dt.m > 1 THEN Date(dt.y, dt.m - 1, DaysInMonth(dt.y, dt.m - 1))
    ELSE Date(dt.y - 1, 12, 31)

\* date + timedelta(days=1)
PlusOneDay(dt) ==
    IF dt.d < DaysInMonth(dt.y, dt.m) THEN Date(dt.y, dt.m, dt.d + 1)
    ELSE IF dt.m < 12 THEN Date(dt.y, dt.m + 1, 1)
    ELSE Date(dt.y + 1, 1, 1)

\* the order of datetime.date: by year, then month, then day
DateLT(a, b) ==
    \/ a.y < b.y
    \/ a.y = b.y /\ a.m < b.m
    \/ a.y = b.y /\ a.m = b.m /\ a.d < b.d

DateLE(a, b) == a = b \/ DateLT(a, b)

(***************************************************************************)
(* The master data.                                                        *)
(***************************************************************************)
VACCINES == <<
    [name |-> "HepB",      count |-> 3, periods |-> << <<2, 0>>, <<3, 0>>, <<7, 0>> >>],
    [name |-> "Rota",      count |-> 2, periods |-> << <<2, 0>>, <<3, 0>> >>],
    [name |-> "Hib",       count |-> 4, periods |-> << <<2, 0>>, <<3, 0>>, <<4, 0>>, <<12, 0>> >>],
    [name |-> "PCV",       count |-> 4, periods |-> << <<2, 0>>, <<3, 0>>, <<4, 0>>, <<12, 0>> >>],
    [name |-> "DPT-IPV",   count |-> 4, periods |-> << <<3, 0>>, <<4, 0>>, <<5, 0>>, <<18, 0>> >>],
    [name |-> "BCG",       count |-> 1, periods |-> << <<5, 0>> >>],
    [name |-> "MR",        count |-> 2, periods |-> << <<12, 0>>, <<60, 0>> >>],
    [name |-> "Varicella", count |-> 2, periods |-> << <<12, 0>>, <<15, 3>> >>],
    [name |-> "JE",        count |-> 4, periods |-> << <<36, 0>>, <<37, 1>>, <<49, 12>>, <<108, 0>> >>]
>>

Pending == "pending"
Administered == "administered"

(***************************************************************************)
(* calculate_schedule                                                      *)
(***************************************************************************)
\* an interval counted from the birth date instead of the previous dose
StartFromBirth(vaccine, i, last_shot_date, birth_date) ==
    LET start_months == vaccine.periods[i + 1][1]
        interval_months == vaccine.periods[i + 1][2]
    IN  IF i > 0 /\ interval_months > 0
        THEN AddMonths(birth_date, interval_months)
        ELSE AddMonths(birth_date, start_months)

\* The body of the inner loop for dose index i (0-based) of one vaccine:
\* the recommended start, given last_shot_date (NoDate for None).
RecommendedStart(vaccine, i, last_shot_date, birth_date) ==
    LET start_months == vaccine.periods[i + 1][1]
        interval_months == vaccine.periods[i + 1][2]
    IN  IF i > 0 /\ interval_months > 0
        THEN LET base_date ==
                    IF last_shot_date # NoDate THEN last_shot_date
                    ELSE AddMonths(birth_date, vaccine.periods[i][1])
             IN  AddMonths(base_date, interval_months)
        ELSE AddMonths(birth_date, start_months)

\* a window of one whole month, the day after its end included
EndOneMonthLater(start) == AddMonths(start, 1)

RecommendedEnd(start) == MinusOneDay(AddMonths(start, 1))

schedule_item(vaccine, i, start) ==
    [vaccine_name |-> <<vaccine.name, i + 1>>,
     recommended_start |-> start,
     recommended_end |-> RecommendedEnd(start),
     status |-> Pending]

\* The inner loop from dose index i on: the items appended for one vaccine.
RECURSIVE VaccineItems(_, _, _, _)
VaccineItems(vaccine, i, last_shot_date, birth_date) ==
    IF i >= vaccine.count THEN <<>>
    ELSE LET start == RecommendedStart(vaccine, i, last_shot_date, birth_date)
         IN  <<schedule_item(vaccine, i, start)>>
                \o VaccineItems(vaccine, i + 1, start, birth_date)

\* an outer loop that stops one vaccine early
RECURSIVE EmittedButLast(_, _)
EmittedButLast(v, birth_date) ==
    IF v >= Len(VACCINES) THEN <<>>
    ELSE VaccineItems(VACCINES[v], 0, NoDate, birth_date)
            \o EmittedButLast(v + 1, birth_date)

\* The outer loop from table index v on: the list before the sort.
RECURSIVE Emitted(_, _)
Emitted(v, birth_date) ==
    IF v > Len(VACCINES) THEN <<>>
    ELSE VaccineItems(VACCINES[v], 0, NoDate, birth_date) \o Emitted(v + 1, birth_date)

\* a sort that is not stable: an element goes before the elements already
\* placed that have its key
RECURSIVE InsertBeforeEqual(_, _)
InsertBeforeEqual(sorted, x) ==
    IF sorted = <<>> THEN <<x>>
    ELSE IF DateLE(x.recommended_start, Head(sorted).recommended_start)
         THEN <<x>> \o sorted
         ELSE <<Head(sorted)>> \o InsertBeforeEqual(Tail(sorted), x)

\* list.sort(key=recommended_start) is stable: an element goes after every
\* element already placed whose key is not greater than its own.
RECURSIVE InsertByStart(_, _)
InsertByStart(sorted, x) ==
    IF sorted = <<>> THEN <<x>>
    ELSE IF DateLT(x.recommended_start, Head(sorted).recommended_start)
         THEN <<x>> \o sorted
         ELSE <<Head(sorted)>> \o InsertByStart(Tail(sorted), x)

RECURSIVE SortByStart(_, _)
SortByStart(done, rest) ==
    IF rest = <<>> THEN done
    ELSE SortByStart(InsertByStart(done, Head(rest)), Tail(rest))

\* the list as emitted, without the sort
calculate_unsorted(birth_date) == Emitted(1, birth_date)

calculate_schedule(birth_date) == SortByStart(<<>>, Emitted(1, birth_date))

(***************************************************************************)
(* Helpers of main().                                                      *)
(***************************************************************************)
\* next((c for c in children if c['name'] == name), None), as an index
\* into the list (0 for None)
RECURSIVE FirstNamedFrom(_, _, _)
FirstNamedFrom(list, name, k) ==
    IF k > Len(list) THEN 0
    ELSE IF list[k].name = name THEN k
    ELSE FirstNamedFrom(list, name, k + 1)

FirstNamed(list, name) == FirstNamedFrom(list, name, 1)

\* [child['name'] for child in children]: the options of the selectbox
ChildNames(list) == {list[k].name : k \in 1..Len(list)}

(***************************************************************************)
(* Page "お子様情報": the registration form, submitted.                    *)
(***************************************************************************)
\* a form that appends the child whatever the name, and then warns
ChildInfoAppending(name, birth_date) ==
    /\ children' = Append(children,
                          [name |-> name,
                           birth_date |-> birth_date,
                           schedule |-> calculate_schedule(birth_date)])
    /\ view' = [page |-> "child_info",
                notice |-> IF name # "" THEN "success" ELSE "warning",
                name |-> name]

ChildInfo(name, birth_date) ==
    /\ IF name # ""
       THEN /\ children' = Append(children,
                               [name |-> name,
                                birth_date |-> birth_date,
                                schedule |-> calculate_schedule(birth_date)])
            /\ view' = [page |-> "child_info", notice |-> "success", name |-> name]
       ELSE /\ children' = children
            /\ view' = [page |-> "child_info", notice |-> "warning", name |-> name]

(***************************************************************************)
(* Page "ダッシュボード"                                                   *)
(***************************************************************************)
None == [none |-> TRUE]

\* next((item for item in schedule if item['status'] == '未接種'), None)
RECURSIVE next_vaccine(_)
next_vaccine(schedule) ==
    IF schedule = <<>> THEN None
    ELSE IF Head(schedule).status = Pending THEN Head(schedule)
    ELSE next_vaccine(Tail(schedule))

\* a tally of the items that are not administered
RECURSIVE pending_shots(_)
pending_shots(schedule) ==
    IF schedule = <<>> THEN 0
    ELSE (IF Head(schedule).status = Pending THEN 1 ELSE 0)
            + pending_shots(Tail(schedule))

\* sum(1 for item in schedule if item['status'] == '接種済み')
RECURSIVE completed_shots(_)
completed_shots(schedule) ==
    IF schedule = <<>> THEN 0
    ELSE (IF Head(schedule).status = Administered THEN 1 ELSE 0)
            + completed_shots(Tail(schedule))

total_shots(schedule) == Len(schedule)

DashboardEmpty ==
    /\ children = <<>>
    /\ view' = [page |-> "dashboard", notice |-> "info"]
    /\ UNCHANGED children

Dashboard(selected_child_name) ==
    /\ children # <<>>
    /\ selected_child_name \in ChildNames(children)
    /\ LET selected_child == children[FirstNamed(children, selected_child_name)]
           schedule == selected_child.schedule
       IN  view' = [page |-> "dashboard",
                    notice |-> "metrics",
                    name |-> selected_child_name,
                    next_vaccine |-> next_vaccine(schedule),
                    completed_shots |-> completed_shots(schedule),
                    total_shots |-> total_shots(schedule)]
    /\ UNCHANGED children

(***************************************************************************)
(* Page "スケジュール一覧": one rerun of the page.  A rerun is caused by   *)
(* one widget: the checkbox of item index is clicked ("check"), the date   *)
(* input of a checked item is given a date ("date"), or nothing changes    *)
(* ("none": the page is opened or the child is selected).  Every other     *)
(* widget returns the value it had, which is the value the item holds.     *)
(***************************************************************************)
NoChange == [kind |-> "none", index |-> 0, date |-> NoDate]
CheckChange(i) == [kind |-> "check", index |-> i, date |-> NoDate]
DateChange(i, d) == [kind |-> "date", index |-> i, date |-> d]

\* st.checkbox("接種済み", key=..., value=(item['status'] == '接種済み'))
checkbox(item, i, change) ==
    IF change.kind = "check" /\ change.index = i
    THEN item.status # Administered
    ELSE item.status = Administered

\* st.date_input("接種日", value=item.get('shot_date', item['recommended_start']))
date_input(item, i, change) ==
    IF change.kind = "date" /\ change.index = i THEN change.date
    ELSE IF "shot_date" \in DOMAIN item THEN item.shot_date
    ELSE item.recommended_start

\* an unchecked box that resets the status and forgets to delete shot_date
record_item_keeping_date(item, checked, shot_date) ==
    IF checked
    THEN [k \in DOMAIN item \cup {"shot_date"} |->
            IF k = "status" THEN Administered
            ELSE IF k = "shot_date" THEN shot_date
            ELSE item[k]]
    ELSE [item EXCEPT !.status = Pending]

\* a checked box that sets the status and leaves the date unrecorded
record_item_status_only(item, checked, shot_date) ==
    IF checked
    THEN [item EXCEPT !.status = Administered]
    ELSE [k \in DOMAIN item \ {"shot_date"} |->
            IF k = "status" THEN Pending ELSE item[k]]

\* the branches on `checked`: the item after the record area, where
\* shot_date is what the date input returns
record_item(item, checked, shot_date) ==
    IF checked
    THEN [k \in DOMAIN item \cup {"shot_date"} |->
            IF k = "status" THEN Administered
            ELSE IF k = "shot_date" THEN shot_date
            ELSE item[k]]
    ELSE [k \in DOMAIN item \ {"shot_date"} |->
            IF k = "status" THEN Pending ELSE item[k]]

\* a window that excludes its last day
display_status_open_end(item, today) ==
    LET is_due == DateLE(item.recommended_start, today)
                    /\ DateLT(today, item.recommended_end)
        is_past == DateLE(item.recommended_end, today) /\ item.status = Pending
    IN  IF item.status = Administered THEN "administered"
        ELSE IF is_due THEN "due"
        ELSE IF is_past THEN "overdue"
        ELSE "upcoming"

\* the status column: which of the four messages is shown
display_status(item, today) ==
    LET is_due == DateLE(item.recommended_start, today)
                    /\ DateLE(today, item.recommended_end)
        is_past == DateLT(item.recommended_end, today) /\ item.status = Pending
    IN  IF item.status = Administered THEN "administered"
        ELSE IF is_due THEN "due"
        ELSE IF is_past THEN "overdue"
        ELSE "upcoming"

ScheduleListEmpty ==
    /\ children = <<>>
    /\ view' = [page |-> "schedule", notice |-> "warning"]
    /\ UNCHANGED children

\* children registered with the same birth date holding one schedule list
\* between them: what is recorded for one is recorded for all of them
ScheduleListShared(selected_name, today, change) ==
    /\ children # <<>>
    /\ selected_name \in ChildNames(children)
    /\ LET c == FirstNamed(children, selected_name)
           schedule_data == children[c].schedule
           checks == [i \in DOMAIN schedule_data |->
                            checkbox(schedule_data[i], i, change)]
           dates == [i \in DOMAIN schedule_data |->
                            IF checks[i]
                            THEN date_input(schedule_data[i], i, change)
                            ELSE NoDate]
           recorded == [i \in DOMAIN schedule_data |->
                            record_item(schedule_data[i], checks[i], dates[i])]
       IN  /\ change.kind # "none" => change.index \in DOMAIN schedule_data
           /\ change.kind = "date" =>
                    schedule_data[change.index].status = Administered
           /\ children' = [k \in DOMAIN children |->
                            IF children[k].birth_date = children[c].birth_date
                            THEN [children[k] EXCEPT !.schedule = recorded]
                            ELSE children[k]]
           /\ view' = [page |-> "schedule",
                       notice |-> "list",
                       name |-> selected_name,
                       today |-> today,
                       checks |-> checks,
                       dates |-> dates,
                       labels |-> [i \in DOMAIN schedule_data |->
                                        display_status(children'[c].schedule[i],
                                                       today)]]

ScheduleList(selected_name, today, change) ==
    /\ children # <<>>
    /\ selected_name \in ChildNames(children)
    /\ LET c == FirstNamed(children, selected_name)
           schedule_data == children[c].schedule
           checks == [i \in DOMAIN schedule_data |->
                            checkbox(schedule_data[i], i, change)]
           dates == [i \in DOMAIN schedule_data |->
                            IF checks[i]
                            THEN date_input(schedule_data[i], i, change)
                            ELSE NoDate]
           recorded == [i \in DOMAIN schedule_data |->
                            record_item(schedule_data[i], checks[i], dates[i])]
       IN  /\ change.kind # "none" => change.index \in DOMAIN schedule_data
           /\ change.kind = "date" =>
                    schedule_data[change.index].status = Administered
           /\ children' = [children EXCEPT ![c].schedule = recorded]
           /\ view' = [page |-> "schedule",
                       notice |-> "list",
                       name |-> selected_name,
                       today |-> today,
                       checks |-> checks,
                       dates |-> dates,
                       labels |-> [i \in DOMAIN schedule_data |->
                                        display_status(children'[c].schedule[i],
                                                       today)]]

(***************************************************************************)
(* The inputs of the pages.                                                *)
(***************************************************************************)
\* st.text_input of the registration form
Names == {"", "a", "b"}

\* st.date_input of the registration form
BirthDates == {Date(2023, 1, 15)}

\* date.today() at the time of a rerun
Todays == {Date(2023, 4, 14), Date(2023, 4, 15)}

\* st.date_input "接種日" of a checked item
ShotDates == {Date(2023, 4, 1)}

\* the items whose widgets the user operates
ClickIndices == {2, 26}

Changes ==
    {NoChange} \cup {CheckChange(i) : i \in ClickIndices}
               \cup {DateChange(i, d) : i \in ClickIndices, d \in ShotDates}

(***************************************************************************)
(* The application: a Streamlit session.  Each step is one rerun of        *)
(* main() on the page chosen in the sidebar.                               *)
(***************************************************************************)
Init ==
    /\ children = <<>>
    /\ view = [page |-> "start", notice |-> "none"]

Register ==
    \E name \in Names, birth_date \in BirthDates :
        /\ name # "" => Len(children) < MaxChildren
        /\ ChildInfo(name, birth_date)

ShowDashboard ==
    \E name \in Names : Dashboard(name)

ShowSchedule ==
    \E name \in Names, today \in Todays, change \in Changes :
        ScheduleList(name, today, change)

Next ==
    \/ Register
    \/ DashboardEmpty
    \/ ShowDashboard
    \/ ScheduleListEmpty
    \/ ShowSchedule

Spec == Init /\ [][Next]_vars

(***************************************************************************)
(* One child whose doses are recorded roughly in schedule order: at most   *)
(* MaxAhead doses are administered after the first pending one.  Every     *)
(* dose of the schedule can be recorded, up to all of them.                *)
(***************************************************************************)
RECURSIVE Ahead(_, _)
Ahead(schedule, seen_pending) ==
    IF schedule = <<>> THEN 0
    ELSE IF Head(schedule).status = Pending THEN Ahead(Tail(schedule), TRUE)
    ELSE (IF seen_pending THEN 1 ELSE 0) + Ahead(Tail(schedule), seen_pending)

DashToday == CHOOSE today \in Todays : \A t \in Todays : DateLE(t, today)

RegisterDash ==
    /\ children = <<>>
    /\ \E birth_date \in BirthDates : ChildInfo("a", birth_date)

RecordDose ==
    /\ children # <<>>
    /\ \E i \in DOMAIN children[1].schedule :
        /\ ScheduleList("a", DashToday, CheckChange(i))
        /\ Ahead(children'[1].schedule, FALSE) <= MaxAhead

NextDash ==
    \/ RegisterDash
    \/ ShowDashboard
    \/ RecordDose

SpecDash == Init /\ [][NextDash]_vars

(***************************************************************************)
(* calculate_schedule alone: one registration, over every birth date of    *)
(* CalcYears consecutive years.                                            *)
(***************************************************************************)
CalcDates ==
    {dt \in {Date(y, m, d) : y \in CalcFirstYear..(CalcFirstYear + CalcYears - 1),
                             m \in 1..12, d \in 1..31} :
        dt.d <= DaysInMonth(dt.y, dt.m)}

RegisterCalc ==
    /\ children = <<>>
    /\ \E birth_date \in CalcDates : ChildInfo("a", birth_date)

NextCalc == RegisterCalc

SpecCalc == Init /\ [][NextCalc]_vars

(***************************************************************************)
(* Helpers of the properties.                                              *)
(***************************************************************************)
\* the place of a vaccine in the rule table
TableIndex(name) == CHOOSE v \in DOMAIN VACCINES : VACCINES[v].name = name

\* x is emitted before y: rule-table order, then dose order
EmittedBefore(x, y) ==
    LET vx == TableIndex(x.vaccine_name[1])
        vy == TableIndex(y.vaccine_name[1])
    IN  vx < vy \/ (vx = vy /\ x.vaccine_name[2] < y.vaccine_name[2])

\* the item of vaccine `name`, dose number `dose` (1-based)
ItemOf(schedule, name, dose) ==
    schedule[CHOOSE i \in DOMAIN schedule :
                schedule[i].vaccine_name = <<name, dose>>]

RECURSIVE SumCounts(_)
SumCounts(v) ==
    IF v > Len(VACCINES) THEN 0 ELSE VACCINES[v].count + SumCounts(v + 1)

\* date.toordinal(): the days from 0001-01-01, counted from 1
DaysBeforeYear(y) ==
    LET p == y - 1 IN 365 * p + (p \div 4) - (p \div 100) + (p \div 400)

RECURSIVE DaysBeforeMonth(_, _)
DaysBeforeMonth(y, m) ==
    IF m = 1 THEN 0 ELSE DaysBeforeMonth(y, m - 1) + DaysInMonth(y, m - 1)

Ordinal(dt) == DaysBeforeYear(dt.y) + DaysBeforeMonth(dt.y, dt.m) + dt.d

(***************************************************************************)
(* C2: the schedule calculate_schedule returns is sorted non-decreasing by *)
(* recommended_start, and two items with equal recommended_start are in    *)
(* the order of their emission (rule-table order, then dose index).        *)
(***************************************************************************)
C2_SortedStable ==
    \A c \in DOMAIN children :
        LET s == children[c].schedule
        IN  \A i, j \in DOMAIN s :
                i < j =>
                    /\ DateLE(s[i].recommended_start, s[j].recommended_start)
                    /\ s[i].recommended_start = s[j].recommended_start
                            => EmittedBefore(s[i], s[j])

\* a schedule in which two vaccines tie and a later vaccine's dose comes
\* before an earlier vaccine's: the sort has moved items and kept ties
C2_Witness ==
    \E c \in DOMAIN children :
        LET s == children[c].schedule
        IN  /\ \E i \in DOMAIN s : i < Len(s) /\
                    s[i].recommended_start = s[i + 1].recommended_start
            /\ \E i, j \in DOMAIN s : i < j /\ EmittedBefore(s[j], s[i])

(***************************************************************************)
(* C3 (as amended): for every vaccine and dose index i, if i = 0 or the    *)
(* rule's interval months is 0 the recommended start is birth date plus    *)
(* the rule's offset months; otherwise it is the previous dose's           *)
(* recommended start of the same vaccine plus the interval months.  The    *)
(* doses of the rule [(36,0),(37,1),(49,12),(108,0)] start at birth+36,    *)
(* (birth+36)+1, ((birth+36)+1)+12 and birth+108 months, each addition     *)
(* clamping the day to the length of its target month; these are birth+36, *)
(* birth+37, birth+49 and birth+108 when the day of birth is at most 28.   *)
(***************************************************************************)
C3_StartRule ==
    \A c \in DOMAIN children :
        LET s == children[c].schedule
            birth == children[c].birth_date
            je(k) == ItemOf(s, "JE", k).recommended_start
        IN  /\ \A v \in DOMAIN VACCINES :
                \A i \in 0..(VACCINES[v].count - 1) :
                    LET rule == VACCINES[v].periods[i + 1]
                        start == ItemOf(s, VACCINES[v].name, i + 1).recommended_start
                    IN  IF i = 0 \/ rule[2] = 0
                        THEN start = AddMonths(birth, rule[1])
                        ELSE start = AddMonths(
                                ItemOf(s, VACCINES[v].name, i).recommended_start,
                                rule[2])
            /\ je(1) = AddMonths(birth, 36)
            /\ je(2) = AddMonths(AddMonths(birth, 36), 1)
            /\ je(3) = AddMonths(AddMonths(AddMonths(birth, 36), 1), 12)
            /\ je(4) = AddMonths(birth, 108)
            /\ birth.d <= 28 =>
                    /\ je(2) = AddMonths(birth, 37)
                    /\ je(3) = AddMonths(birth, 49)

\* a child born on a day after the 28th whose chained dose differs from
\* birth date plus the rule's own offset
C3_Witness ==
    \E c \in DOMAIN children :
        /\ children[c].birth_date.d > 28
        /\ ItemOf(children[c].schedule, "JE", 3).recommended_start
                # AddMonths(children[c].birth_date, 49)

\* C3 as stated: the four doses start at birth+36, birth+37, birth+49 and
\* birth+108 months for every birth date
C3_Original ==
    \A c \in DOMAIN children :
        LET s == children[c].schedule
            birth == children[c].birth_date
        IN  /\ ItemOf(s, "JE", 1).recommended_start = AddMonths(birth, 36)
            /\ ItemOf(s, "JE", 2).recommended_start = AddMonths(birth, 37)
            /\ ItemOf(s, "JE", 3).recommended_start = AddMonths(birth, 49)
            /\ ItemOf(s, "JE", 4).recommended_start = AddMonths(birth, 108)

(***************************************************************************)
(* C4 (as amended): the number of items calculate_schedule returns is the  *)
(* sum of the dose counts of the rule table, which is 26 for VACCINES, and *)
(* every (vaccine, dose number) pair appears exactly once.                 *)
(***************************************************************************)
C4_Count ==
    \A c \in DOMAIN children :
        LET s == children[c].schedule
        IN  /\ Len(s) = SumCounts(1)
            /\ Len(s) = 26
            /\ \A v \in DOMAIN VACCINES :
                \A dose \in 1..VACCINES[v].count :
                    Cardinality({i \in DOMAIN s :
                        s[i].vaccine_name = <<VACCINES[v].name, dose>>}) = 1

C4_Witness ==
    \E c \in DOMAIN children :
        /\ Len(children[c].schedule) = 26
        /\ children[c].birth_date.d = 31

\* C4 as stated: 25 items for the built-in table
C4_Original ==
    \A c \in DOMAIN children : Len(children[c].schedule) = 25

C1_UniqueNonEmpty ==
    \A c, e \in DOMAIN children :
        /\ children[c].name # ""
        /\ c # e => children[c].name # children[e].name

(***************************************************************************)
(* C6: after a rerun of the schedule list every item whose box is checked  *)
(* is Administered with shot_date equal to what its date input returned,   *)
(* and every item whose box is unchecked is Pending without a shot_date;   *)
(* an item that goes from Pending to Administered gets its                 *)
(* recommended_start as shot_date; recording the same target state twice   *)
(* leaves the status that recording it once leaves.                        *)
(***************************************************************************)
Selected == children[FirstNamed(children, view.name)]

OnScheduleList == view.page = "schedule" /\ view.notice = "list"

C6_Recorded ==
    OnScheduleList =>
        \A i \in DOMAIN Selected.schedule :
            LET item == Selected.schedule[i]
            IN  /\ IF view.checks[i]
                   THEN /\ item.status = Administered
                        /\ "shot_date" \in DOMAIN item
                        /\ item.shot_date = view.dates[i]
                        /\ item.shot_date # NoDate
                   ELSE /\ item.status = Pending
                        /\ "shot_date" \notin DOMAIN item
                /\ \A target \in BOOLEAN, d1, d2 \in ShotDates \cup {item.recommended_start} :
                        record_item(record_item(item, target, d1), target, d2).status
                            = record_item(item, target, d1).status

C6_Default ==
    \A c \in DOMAIN children :
        \A i \in DOMAIN children[c].schedule :
            (children[c].schedule[i].status = Pending
                /\ children'[c].schedule[i].status = Administered)
            => children'[c].schedule[i].shot_date
                    = children[c].schedule[i].recommended_start

C6_Toggle == [](C6_Recorded) /\ [][C6_Default]_vars

\* an item recorded with a supplied date next to one unchecked again
C6_Witness ==
    /\ OnScheduleList
    /\ \E i, j \in DOMAIN Selected.schedule :
        /\ view.checks[i]
        /\ Selected.schedule[i].shot_date \in ShotDates
        /\ Selected.schedule[i].shot_date # Selected.schedule[i].recommended_start
        /\ ~view.checks[j]
        /\ Selected.schedule[j].status = Pending

(***************************************************************************)
(* C7: the label shown for an item is Administered if its status is        *)
(* Administered, else Due if recommended_start <= today <= recommended_end,*)
(* else Overdue if today > recommended_end, else Upcoming; a Pending item  *)
(* is Due on its recommended_start and on its recommended_end and Overdue  *)
(* on the day after its recommended_end.                                   *)
(***************************************************************************)
C7_Display ==
    OnScheduleList =>
        \A i \in DOMAIN Selected.schedule :
            LET item == Selected.schedule[i]
                t == Ordinal(view.today)
                first == Ordinal(item.recommended_start)
                last == Ordinal(item.recommended_end)
            IN  /\ view.labels[i] =
                        IF item.status = Administered THEN "administered"
                        ELSE IF first <= t /\ t <= last THEN "due"
                        ELSE IF t > last THEN "overdue"
                        ELSE "upcoming"
                /\ item.status = Pending =>
                    /\ view.today = item.recommended_start => view.labels[i] = "due"
                    /\ view.today = item.recommended_end => view.labels[i] = "due"
                    /\ view.today = PlusOneDay(item.recommended_end)
                            => view.labels[i] = "overdue"

\* one list that shows an administered item, a Pending item the day after
\* its window and a Pending item on the first day of its window
C7_Witness ==
    /\ OnScheduleList
    /\ \E i, j, k \in DOMAIN Selected.schedule :
        /\ view.labels[i] = "administered"
        /\ view.labels[j] = "overdue"
        /\ view.today = PlusOneDay(Selected.schedule[j].recommended_end)
        /\ view.labels[k] = "due"
        /\ view.today = Selected.schedule[k].recommended_start

(***************************************************************************)
(* C8: the next vaccine the dashboard reports is a Pending item of the     *)
(* child whose recommended_start is the smallest among the Pending items,  *)
(* and it is None exactly when every item is Administered.                 *)
(***************************************************************************)
OnDashboard == view.page = "dashboard" /\ view.notice = "metrics"

C8_NextPending ==
    OnDashboard =>
        LET s == Selected.schedule
            nv == view.next_vaccine
        IN  /\ nv = None <=> \A i \in DOMAIN s : s[i].status = Administered
            /\ nv # None =>
                /\ nv.status = Pending
                /\ \E i \in DOMAIN s : s[i] = nv
                /\ \A j \in DOMAIN s :
                        s[j].status = Pending =>
                            DateLE(nv.recommended_start, s[j].recommended_start)

\* the dashboard of a child with every dose recorded
C8_Witness ==
    /\ OnDashboard
    /\ view.next_vaccine = None
    /\ Selected.schedule # <<>>

(***************************************************************************)
(* C9: the tally the dashboard reports is (number of Administered items,   *)
(* number of items): the total is the number of doses of the table         *)
(* whatever has been recorded, the administered count lies between 0 and   *)
(* the total, it is 0 for a child with no dose recorded and 1 for a child  *)
(* with one dose recorded.                                                 *)
(***************************************************************************)
C9_Progress ==
    OnDashboard =>
        LET s == Selected.schedule
        IN  /\ view.total_shots = SumCounts(1)
            /\ view.completed_shots =
                    Cardinality({i \in DOMAIN s : s[i].status = Administered})
            /\ view.completed_shots >= 0
            /\ view.completed_shots <= view.total_shots
            /\ (\A i \in DOMAIN s : s[i].status = Pending)
                    => view.completed_shots = 0
            /\ (\E i \in DOMAIN s :
                    /\ s[i].status = Administered
                    /\ \A j \in DOMAIN s \ {i} : s[j].status = Pending)
                    => view.completed_shots = 1

\* the dashboard after one dose has been recorded
C9_Witness ==
    /\ OnDashboard
    /\ view.completed_shots = 1
    /\ view.total_shots = SumCounts(1)

(***************************************************************************)
(* C10: a registration submitted with an empty name, which ends in the     *)
(* warning, leaves the list of children and every item of every child as   *)
(* they were.                                                              *)
(***************************************************************************)
RegistrationFailed == view.page = "child_info" /\ view.notice = "warning"

C10_Step == RegistrationFailed' => children' = children

C10_FailedNoOp == [][C10_Step]_vars

\* a failed registration in a session that holds a child with a recorded dose
C10_Witness ==
    /\ RegistrationFailed
    /\ \E c \in DOMAIN children :
        \E i \in DOMAIN children[c].schedule :
            children[c].schedule[i].status = Administered

(***************************************************************************)
(* C11: in every state, after registration and after any reruns of the     *)
(* schedule list, an item has the key shot_date exactly when its status is *)
(* Administered, and a shot_date that is present is a date.                *)
(***************************************************************************)
C11_ShotDateIffAdministered ==
    \A c \in DOMAIN children :
        \A i \in DOMAIN children[c].schedule :
            LET item == children[c].schedule[i]
            IN  /\ "shot_date" \in DOMAIN item <=> item.status = Administered
                /\ item.status \in {Pending, Administered}
                /\ "shot_date" \in DOMAIN item => item.shot_date # NoDate

\* two children, the first with one item recorded with its date and one
\* item without, the second registered and never recorded
C11_Witness ==
    /\ Len(children) = 2
    /\ \E i, j \in DOMAIN children[1].schedule :
        /\ children[1].schedule[i].status = Administered
        /\ "shot_date" \in DOMAIN children[1].schedule[i]
        /\ children[1].schedule[j].status = Pending
        /\ "shot_date" \notin DOMAIN children[1].schedule[j]
    /\ \A i \in DOMAIN children[2].schedule :
        "shot_date" \notin DOMAIN children[2].schedule[i]

(***************************************************************************)
(* C12: a rerun of the schedule list caused by one widget of one item      *)
(* changes at most that item, and of it only the status and the shot_date: *)
(* the item keeps its vaccine_name, recommended_start and recommended_end, *)
(* the child's list keeps its length and order, every other item of the    *)
(* child and every child other than the selected one stay as they were,    *)
(* and so do the names and birth dates.                                    *)
(***************************************************************************)
\* the places <<child, item>> whose item differs between the two states
Touched ==
    UNION {{<<c, i>> : i \in {k \in DOMAIN children[c].schedule :
                                children'[c].schedule[k] # children[c].schedule[k]}} :
            c \in DOMAIN children}

C12_Step ==
    OnScheduleList' =>
        /\ Len(children') = Len(children)
        /\ \A c \in DOMAIN children :
            /\ children'[c].name = children[c].name
            /\ children'[c].birth_date = children[c].birth_date
            /\ Len(children'[c].schedule) = Len(children[c].schedule)
            /\ \A i \in DOMAIN children[c].schedule :
                LET old == children[c].schedule[i]
                    new == children'[c].schedule[i]
                IN  /\ new.vaccine_name = old.vaccine_name
                    /\ new.recommended_start = old.recommended_start
                    /\ new.recommended_end = old.recommended_end
                    /\ DOMAIN new \ {"shot_date"} = DOMAIN old \ {"shot_date"}
        /\ Cardinality(Touched) <= 1
        /\ \A p \in Touched : p[1] = FirstNamed(children, view'.name)

C12_ToggleFrame == [][C12_Step]_vars

\* two children of different names after doses were recorded for the
\* second one only
C12_Witness ==
    /\ OnScheduleList
    /\ Len(children) = 2
    /\ children[1].name # children[2].name
    /\ view.name = children[2].name
    /\ \E i \in DOMAIN children[2].schedule :
            children[2].schedule[i].status = Administered
    /\ \A i \in DOMAIN children[1].schedule :
            children[1].schedule[i].status = Pending

====
